---------------------------- MODULE Spec2Model ----------------------------
(***************************************************************************)
(* Model of the batched-submission pipeline of src/server/server.js:       *)
(* chunkArray, buildSoapEnvelope and the POST /api/send-soap handler.      *)
(* One action is one stretch of the handler between two awaits; the remote *)
(* SOAP service, the timeout timer and the body stream are the             *)
(* environment and choose their outcome nondeterministically.              *)
(***************************************************************************)
EXTENDS Integers, Sequences, FiniteSets, TLC

VARIABLES
    data,        \* req.body.data: [isArray, value]
    contextId,   \* req.body.contextId
    pc,          \* where the handler is suspended
    chunks,      \* const chunks = chunkArray(data, 50)
    i,           \* loop index (0-based, as in the source)
    responses,   \* const responses = []
    response,    \* the Response the current fetch resolved with
    responseText,\* let responseText: the body read from the Response
    timers,      \* batches (1-based) whose setTimeout is armed
    inflight,    \* batches (1-based) whose fetch is pending
    posts,       \* log of the POSTs issued to SOAP_URL
    events,      \* log of what the environment did to each batch
    delays,      \* log of the inter-batch pauses that elapsed
    sent,        \* log of the HTTP responses sent with res.json
    cArr,        \* chunker harness: the array handed to chunkArray
    cSize,       \* chunker harness: the size handed to chunkArray
    cOut,        \* chunker harness: what chunkArray returned
    cI,          \* chunker harness: the loop index i of chunkArray
    bRows,       \* builder harness: the rows handed to buildSoapEnvelope
    bCtx,        \* builder harness: the contextId handed to buildSoapEnvelope
    bOut         \* builder harness: what buildSoapEnvelope returned or threw

hvars == <<data, contextId, pc, chunks, i, responses, response, responseText,
           timers, inflight, posts, events, delays, sent>>
cvars == <<cArr, cSize, cOut, cI, bRows, bCtx, bOut>>
vars  == <<data, contextId, pc, chunks, i, responses, response, responseText,
           timers, inflight, posts, events, delays, sent, cArr, cSize, cOut,
           cI, bRows, bCtx, bOut>>

---------------------------------------------------------------------------
(* Bounds of the model *)

MaxChunks == 3      \* the handler is run on inputs of at most this many chunks
MaxLen == 4         \* chunker harness: longest array
MaxSize == 4        \* chunker harness: largest chunk size
MaxNegSize == 2     \* chunker harness: sizes go down to -MaxNegSize
MaxIter == 5        \* chunker harness: loop iterations followed
MaxRows == 2        \* builder harness: longest chunk

(* Program constants *)

BatchSize == 50     \* chunkArray(data, 50)
DelayMs == 10000    \* setTimeout(resolve, 10000)

---------------------------------------------------------------------------
(* Values *)

Null == "null"              \* JavaScript null / no value yet

Min(a, b) == IF a < b THEN a ELSE b

(* The characters String.prototype.trim strips: WhiteSpace (TAB, VT, FF, SP, *)
(* NBSP, ZWNBSP and the other space separators) and LineTerminator (LF, CR, *)
(* LS, PS). VT, U+00A0, U+1680 and U+FEFF stand as themselves between the   *)
(* quotes; a character the lexer does not take inside a string is written   *)
(* as its \uXXXX escape.                                                    *)
Whitespace ==
    {" ", "\t", "\n", "\r", "\f",
     "", " ", " ", "﻿",
     "\\u2000", "\\u2001", "\\u2002", "\\u2003", "\\u2004", "\\u2005",
     "\\u2006", "\\u2007", "\\u2008", "\\u2009", "\\u200A", "\\u2028",
     "\\u2029", "\\u202F", "\\u205F", "\\u3000"}

RECURSIVE TrimStart(_)
TrimStart(s) ==
    IF s # <<>> /\ Head(s) \in Whitespace THEN TrimStart(Tail(s)) ELSE s

RECURSIVE TrimEnd(_)
TrimEnd(s) ==
    IF s # <<>> /\ s[Len(s)] \in Whitespace
    THEN TrimEnd(SubSeq(s, 1, Len(s) - 1))
    ELSE s

\* a trim that strips the leading blanks only
TrimStartOnly(s) == TrimStart(s)

\* String.prototype.trim on a string held as a sequence of characters
Trim(s) == TrimEnd(TrimStart(s))

\* row["EnvelopeId"] is undefined when the row has no such property
Has(row, f) == f \in DOMAIN row

\* the row on which row[f].trim() throws a TypeError
RowThrows(row) == ~Has(row, "EnvelopeId") \/ ~Has(row, "AuthToken")

TypeError == [name |-> "TypeError", code |-> "undefined",
              message |-> "Cannot read properties of undefined (reading 'trim')"]

(* Text is held as a sequence of pieces whose concatenation is the string:  *)
(* the literal words of the template are one piece each, interpolated text  *)
(* is one piece per character.                                              *)
EnvelopeHead ==
    "<?xml version=\"1.0\" encoding=\"utf-8\"?>\n"
    \o "<s:Envelope xmlns:s=\"http://schemas.xmlsoap.org/soap/envelope/\">\n"
    \o "  <s:Body xmlns:xsi=\"http://www.w3.org/2001/XMLSchema-instance\""
    \o " xmlns:xsd=\"http://www.w3.org/2001/XMLSchema\">\n"
    \o "    <DeleteEnvelope"
    \o " xmlns=\"https://www.assuresign.net/Services/DocumentNOW/Envelopes\">\n"
    \o "      <Requests>\n"
    \o "        "
EnvelopeTail ==
    "\n      </Requests>\n"
    \o "    </DeleteEnvelope>\n"
    \o "  </s:Body>\n"
    \o "</s:Envelope>"
ElemOpen == "<DeleteEnvelopeRequest"
AttrContext == " ContextIdentifier="
AttrEnvelopeId == " EnvelopeId="
AttrAuthToken == " EnvelopeAuthToken="
Quote == "\""
ElemClose == " />"

\* one <DeleteEnvelopeRequest .../> element: the values are interpolated as
\* they are, only trimmed
DeleteEnvelopeRequest(row, ctx) ==
    <<ElemOpen, AttrContext, Quote>> \o ctx
        \o <<Quote, AttrEnvelopeId, Quote>> \o Trim(row["EnvelopeId"])
        \o <<Quote, AttrAuthToken, Quote>> \o Trim(row["AuthToken"])
        \o <<Quote, ElemClose>>

\* Array.prototype.join("")
RECURSIVE join(_)
join(texts) == IF texts = <<>> THEN <<>> ELSE Head(texts) \o join(Tail(texts))

\* buildSoapEnvelope(data, contextId): the document with the request elements
\* in row order, or the TypeError the template throws on the first row
\* lacking a field
buildSoapEnvelope(rows, ctx) ==
    IF \E k \in 1..Len(rows) : RowThrows(rows[k])
    THEN [threw |-> TRUE, error |-> TypeError, xml |-> <<>>]
    ELSE [threw |-> FALSE, error |-> TypeError,
          xml |-> <<EnvelopeHead>>
                  \o join([k \in 1..Len(rows) |-> DeleteEnvelopeRequest(rows[k], ctx)])
                  \o <<EnvelopeTail>>]

\* slice taking the element at end as well
sliceInclusive(arr, begin, end) ==
    LET e == IF end < 0 THEN Len(arr) + end + 1 ELSE Min(end + 1, Len(arr))
    IN  IF begin >= e THEN <<>> ELSE SubSeq(arr, begin + 1, e)

Max(a, b) == IF a > b THEN a ELSE b

\* Array.prototype.slice(begin, end): a negative index counts from the end
slice(arr, begin, end) ==
    LET b == IF begin < 0 THEN Max(Len(arr) + begin, 0) ELSE Min(begin, Len(arr))
        e == IF end < 0 THEN Max(Len(arr) + end, 0) ELSE Min(end, Len(arr))
    IN  IF b >= e THEN <<>> ELSE SubSeq(arr, b + 1, e)

\* the for loop of chunkArray, from index k with the chunks built so far
RECURSIVE chunkLoop(_, _, _, _)
chunkLoop(arr, size, k, acc) ==
    IF k < Len(arr)
    THEN chunkLoop(arr, size, k + size, Append(acc, slice(arr, k, k + size)))
    ELSE acc

chunkArray(arr, size) == chunkLoop(arr, size, 0, <<>>)

---------------------------------------------------------------------------
(* The request bodies the handler is run on *)

DigitChar == <<"0", "1", "2", "3", "4", "5", "6", "7", "8", "9">>

RECURSIVE Digits(_)
Digits(n) ==
    IF n < 10 THEN <<DigitChar[n + 1]>>
    ELSE Digits(n \div 10) \o <<DigitChar[(n % 10) + 1]>>

\* a parsed CSV row; the identifier carries surrounding blanks
GoodRow(p) == [EnvelopeId |-> <<" ", "E">> \o Digits(p) \o <<" ">>,
               AuthToken  |-> <<"T">> \o Digits(p) \o <<" ">>]

\* a row of a CSV file that has no such column
RowWithout(p, f) ==
    IF f = "EnvelopeId" THEN [AuthToken |-> GoodRow(p).AuthToken]
    ELSE [EnvelopeId |-> GoodRow(p).EnvelopeId]

Fields == {"EnvelopeId", "AuthToken"}

\* n rows, the row at position bad (if any) lacking field f
Rows(n, bad, f) ==
    [p \in 1..n |-> IF p = bad THEN RowWithout(p, f) ELSE GoodRow(p)]

\* lengths around the chunk boundaries, up to MaxChunks chunks
DataLens == {n \in 0..(MaxChunks * BatchSize) : n % BatchSize \in {0, 1, 20}}

\* positions of the incomplete row: none (0), or at a chunk boundary
BadPositions(n) == {0} \cup {p \in 1..n : p % BatchSize \in {0, 1}}

RequestData ==
    {[isArray |-> FALSE, value |-> <<>>]}
    \cup {[isArray |-> TRUE, value |-> Rows(n, 0, "AuthToken")] : n \in DataLens}
    \cup UNION {{[isArray |-> TRUE, value |-> Rows(n, bad, f)] :
                    bad \in BadPositions(n) \ {0}, f \in Fields} : n \in DataLens}

ContextIds == {"", "CTX"}

---------------------------------------------------------------------------
(* The environment: the remote service, the transport, the body stream *)

HttpStatuses == {200, 404, 500}
ErrCodes == {"ENOTFOUND", "ECONNREFUSED", "ECONNRESET", "EHOSTUNREACH"}
XmlBody == "<DeleteEnvelopeResult>ok</DeleteEnvelopeResult>"
TextBody == "Service Unavailable"
Bodies == {XmlBody, TextBody}

\* no fetch has resolved yet
NoResponse == [status |-> 0, ok |-> FALSE, statusText |-> ""]

\* response.statusText: the reason phrase the remote sends with the status
StatusText(status) ==
    CASE status = 200 -> "OK"
      [] status = 404 -> "Not Found"
      [] status = 500 -> "Internal Server Error"

\* response.ok
Ok(status) == 200 <= status /\ status <= 299

\* parser.parseStringPromise(text): the parsed document, or a rejection
parseStringPromise(text) ==
    IF text = XmlBody
    THEN [threw |-> FALSE, value |-> "{_: 'ok'}"]
    ELSE [threw |-> TRUE, value |-> Null]

Event(k, kind, status, code, body) ==
    [batch |-> k, kind |-> kind, status |-> status, code |-> code, body |-> body]

---------------------------------------------------------------------------
(* Initial state: a request has arrived, nothing has run *)

InitHandler ==
    /\ data \in RequestData
    /\ contextId \in ContextIds
    /\ pc = "start"
    /\ chunks = <<>>
    /\ i = 0
    /\ responses = <<>>
    /\ response = NoResponse
    /\ responseText = Null
    /\ timers = {}
    /\ inflight = {}
    /\ posts = <<>>
    /\ events = <<>>
    /\ delays = <<>>
    /\ sent = <<>>

InitHarnessIdle ==
    /\ cArr = <<>>
    /\ cSize = 1
    /\ cOut = [returned |-> FALSE, chunks |-> <<>>]
    /\ cI = 0
    /\ bRows = <<>>
    /\ bCtx = <<>>
    /\ bOut = [returned |-> FALSE, threw |-> FALSE, xml |-> <<>>]

Init == InitHandler /\ InitHarnessIdle

---------------------------------------------------------------------------
(* The handler of POST /api/send-soap *)

\* res.status(status).json(json)
Reply(status, json) == [status |-> status, json |-> json]

\* a success entry numbered with the loop index instead of i + 1
SuccessEntryZeroBased(k, status, text, parsed, count) ==
    [batch |-> k - 1, status |-> status, rawResponse |-> text,
     parsedResponse |-> parsed, itemCount |-> count, success |-> TRUE]

\* the entry pushed for a batch that went through
SuccessEntry(k, status, text, parsed, count) ==
    [batch |-> k, status |-> status, rawResponse |-> text,
     parsedResponse |-> parsed, itemCount |-> count, success |-> TRUE]

\* the entry pushed by catch (batchError)
FailureEntry(k, err, count) ==
    [batch |-> k, status |-> "error", error |-> err.message,
     itemCount |-> count, success |-> FALSE]

\* responses.filter(r => r.success).length
RECURSIVE CountSuccess(_)
CountSuccess(rs) ==
    IF rs = <<>> THEN 0
    ELSE (IF Head(rs).success THEN 1 ELSE 0) + CountSuccess(Tail(rs))

\* responses.every(r => r.success)
RECURSIVE EverySuccess(_)
EverySuccess(rs) ==
    IF rs = <<>> THEN TRUE
    ELSE IF Head(rs).success THEN EverySuccess(Tail(rs)) ELSE FALSE

\* responses.some(r => r.success)
RECURSIVE SomeSuccess(_)
SomeSuccess(rs) ==
    IF rs = <<>> THEN FALSE
    ELSE IF Head(rs).success THEN TRUE ELSE SomeSuccess(Tail(rs))

\* a summary that counts every attempted batch as a successful one
SummaryJsonCountsAttempts(rs, chs, d) ==
    [success |-> rs # <<>>,
     totalBatches |-> Len(chs),
     totalItems |-> Len(d),
     successfulBatches |-> Len(rs),
     results |-> rs]

\* the body of the final res.json
SummaryJson(rs, chs, d) ==
    [success |-> SomeSuccess(rs),
     totalBatches |-> Len(chs),
     totalItems |-> Len(d),
     successfulBatches |-> CountSuccess(rs),
     results |-> rs]

\* if (!data || !Array.isArray(data)) return res.status(400)...
RejectData ==
    /\ pc = "start"
    /\ ~data.isArray
    /\ sent' = Append(sent, Reply(400, [error |-> "No valid data provided"]))
    /\ pc' = "done"
    /\ UNCHANGED <<data, contextId, responseText, chunks, i, responses, response, timers,
                   inflight, posts, events, delays>>
    /\ UNCHANGED cvars

\* if (!contextId) return res.status(400)...
RejectContext ==
    /\ pc = "start"
    /\ data.isArray
    /\ contextId = ""
    /\ sent' = Append(sent, Reply(400, [error |-> "ContextId is required"]))
    /\ pc' = "done"
    /\ UNCHANGED <<data, contextId, responseText, chunks, i, responses, response, timers,
                   inflight, posts, events, delays>>
    /\ UNCHANGED cvars

\* the same step with the contextId test left out
AcceptWithoutContext ==
    /\ pc = "start"
    /\ data.isArray
    /\ chunks' = chunkArray(data.value, BatchSize)
    /\ responses' = <<>>
    /\ i' = 0
    /\ pc' = "loop"
    /\ UNCHANGED <<data, contextId, responseText, response, timers, inflight, posts, events,
                   delays, sent>>
    /\ UNCHANGED cvars

\* const chunks = chunkArray(data, 50); const responses = []; i = 0
Accept ==
    /\ pc = "start"
    /\ data.isArray
    /\ contextId # ""
    /\ chunks' = chunkArray(data.value, BatchSize)
    /\ responses' = <<>>
    /\ i' = 0
    /\ pc' = "loop"
    /\ UNCHANGED <<data, contextId, responseText, response, timers, inflight, posts, events,
                   delays, sent>>
    /\ UNCHANGED cvars

\* catch (batchError) without the two returning branches: every error is
\* pushed and the loop goes on
CatchBatchErrorNeverFatal(err) ==
    /\ responses' = Append(responses,
                           FailureEntry(i + 1, err, Len(chunks[i + 1])))
    /\ i' = i + 1
    /\ pc' = "loop"
    /\ UNCHANGED sent

\* catch (batchError) that pushes the failure and runs the same batch again
CatchBatchErrorRetry(err) ==
    IF err.name = "AbortError"
    THEN /\ sent' = Append(sent, Reply(408, [error |-> "Request timeout",
                                             details |-> "Batch " \o ToString(i + 1)
                                                 \o " timed out after 30 seconds",
                                             batch |-> i + 1]))
         /\ pc' = "done"
         /\ UNCHANGED <<responses, i>>
    ELSE IF err.code = "ENOTFOUND" \/ err.code = "ECONNREFUSED"
    THEN /\ sent' = Append(sent, Reply(503, [error |-> "Service unavailable",
                                             details |-> "Cannot connect to SOAP service: "
                                                 \o err.message,
                                             batch |-> i + 1]))
         /\ pc' = "done"
         /\ UNCHANGED <<responses, i>>
    ELSE /\ responses' = Append(responses,
                                FailureEntry(i + 1, err, Len(chunks[i + 1])))
         /\ i' = i
         /\ pc' = "loop"
         /\ UNCHANGED sent

\* catch (batchError) that pushes the failed batch before testing the class
CatchBatchErrorPushesFirst(err) ==
    IF err.name = "AbortError"
    THEN /\ responses' = Append(responses,
                                FailureEntry(i + 1, err, Len(chunks[i + 1])))
         /\ sent' = Append(sent, Reply(408, [error |-> "Request timeout",
                                             details |-> "Batch " \o ToString(i + 1)
                                                 \o " timed out after 30 seconds",
                                             batch |-> i + 1]))
         /\ pc' = "done"
         /\ UNCHANGED i
    ELSE IF err.code = "ENOTFOUND" \/ err.code = "ECONNREFUSED"
    THEN /\ responses' = Append(responses,
                                FailureEntry(i + 1, err, Len(chunks[i + 1])))
         /\ sent' = Append(sent, Reply(503, [error |-> "Service unavailable",
                                             details |-> "Cannot connect to SOAP service: "
                                                 \o err.message,
                                             batch |-> i + 1]))
         /\ pc' = "done"
         /\ UNCHANGED i
    ELSE /\ responses' = Append(responses,
                                FailureEntry(i + 1, err, Len(chunks[i + 1])))
         /\ i' = i + 1
         /\ pc' = "loop"
         /\ UNCHANGED sent

\* catch (batchError): two classes answer the caller and return, every other
\* error is pushed as a failed batch and the loop goes on with i + 1
CatchBatchError(err) ==
    IF err.name = "AbortError"
    THEN /\ sent' = Append(sent, Reply(408, [error |-> "Request timeout",
                                             details |-> "Batch " \o ToString(i + 1)
                                                 \o " timed out after 30 seconds",
                                             batch |-> i + 1]))
         /\ pc' = "done"
         /\ UNCHANGED <<responses, i>>
    ELSE IF err.code = "ENOTFOUND" \/ err.code = "ECONNREFUSED"
    THEN /\ sent' = Append(sent, Reply(503, [error |-> "Service unavailable",
                                             details |-> "Cannot connect to SOAP service: "
                                                 \o err.message,
                                             batch |-> i + 1]))
         /\ pc' = "done"
         /\ UNCHANGED <<responses, i>>
    ELSE /\ responses' = Append(responses,
                                FailureEntry(i + 1, err, Len(chunks[i + 1])))
         /\ i' = i + 1
         /\ pc' = "loop"
         /\ UNCHANGED sent

\* the loop body up to the first await: build the envelope, arm the timer,
\* start the fetch
SubmitBatch ==
    /\ pc = "loop"
    /\ i < Len(chunks)
    /\ LET xmlBody == buildSoapEnvelope(chunks[i + 1], <<contextId>>)
       IN  /\ ~xmlBody.threw
           /\ posts' = Append(posts, [batch |-> i + 1, body |-> xmlBody.xml])
    /\ timers' = timers \cup {i + 1}
    /\ inflight' = inflight \cup {i + 1}
    /\ pc' = "fetch"
    /\ UNCHANGED <<data, contextId, responseText, chunks, i, responses, response, events,
                   delays, sent>>
    /\ UNCHANGED cvars

\* buildSoapEnvelope throws inside the try: no timer, no fetch, straight to
\* catch (batchError)
BuildThrows ==
    /\ pc = "loop"
    /\ i < Len(chunks)
    /\ LET xmlBody == buildSoapEnvelope(chunks[i + 1], <<contextId>>)
       IN  /\ xmlBody.threw
           /\ CatchBatchError(xmlBody.error)
    /\ events' = Append(events, Event(i + 1, "throw", 0, "", ""))
    /\ UNCHANGED <<data, contextId, responseText, chunks, response, timers, inflight, posts,
                   delays>>
    /\ UNCHANGED cvars

\* the fetch resolves with a status and the timer is left armed
FetchResolvesTimerKept ==
    /\ pc = "fetch"
    /\ \E status \in HttpStatuses :
          /\ response' = [status |-> status, ok |-> Ok(status),
                          statusText |-> StatusText(status)]
          /\ events' = Append(events, Event(i + 1, "status", status, "", ""))
          /\ pc' = IF Ok(status) THEN "text" ELSE "errtext"
    /\ timers' = timers
    /\ inflight' = inflight \ {i + 1}
    /\ UNCHANGED <<data, contextId, responseText, chunks, i, responses, posts, delays, sent>>
    /\ UNCHANGED cvars

\* the fetch resolves with a status; .finally clears the timer
FetchResolves ==
    /\ pc = "fetch"
    /\ \E status \in HttpStatuses :
          /\ response' = [status |-> status, ok |-> Ok(status),
                          statusText |-> StatusText(status)]
          /\ events' = Append(events, Event(i + 1, "status", status, "", ""))
          /\ pc' = IF Ok(status) THEN "text" ELSE "errtext"
    /\ timers' = timers \ {i + 1}
    /\ inflight' = inflight \ {i + 1}
    /\ UNCHANGED <<data, contextId, responseText, chunks, i, responses, posts, delays, sent>>
    /\ UNCHANGED cvars

\* the fetch rejects with a transport error; .finally clears the timer and the
\* rejection lands in catch (batchError)
FetchRejects ==
    /\ pc = "fetch"
    /\ \E code \in ErrCodes :
          /\ events' = Append(events, Event(i + 1, "transport", 0, code, ""))
          /\ CatchBatchError([name |-> "FetchError", code |-> code,
                              message |-> "request failed"])
    /\ timers' = timers \ {i + 1}
    /\ inflight' = inflight \ {i + 1}
    /\ UNCHANGED <<data, contextId, responseText, chunks, response, posts, delays>>
    /\ UNCHANGED cvars

\* an armed timer fires and calls abort() on the controller of its own
\* iteration: a fetch of that iteration still pending rejects with an
\* AbortError; on a fetch that has settled the abort changes nothing
TimeoutFires ==
    /\ \E k \in timers :
          /\ timers' = timers \ {k}
          /\ IF k \in inflight
             THEN /\ pc = "fetch"
                  /\ k = i + 1
                  /\ events' = Append(events, Event(k, "timeout", 0, "", ""))
                  /\ CatchBatchError([name |-> "AbortError", code |-> "undefined",
                                      message |-> "The user aborted a request."])
                  /\ inflight' = inflight \ {k}
             ELSE /\ events' = Append(events, Event(k, "latefire", 0, "", ""))
                  /\ UNCHANGED <<pc, i, responses, sent, inflight>>
    /\ UNCHANGED <<data, contextId, responseText, chunks, response, posts, delays>>
    /\ UNCHANGED cvars

\* the non-ok branch answering the caller without returning: the handler goes
\* on to read the body as for a success
ReadErrorTextNoReturn ==
    /\ pc = "errtext"
    /\ \E readable \in BOOLEAN :
          LET errorText == IF readable THEN TextBody
                           ELSE "Could not read error response: "
                                    \o "body stream failed"
          IN  /\ events' = Append(events,
                     Event(i + 1, IF readable THEN "errbody" ELSE "errbodyfail",
                           response.status, "", errorText))
              /\ sent' = Append(sent, Reply(response.status,
                     [error |-> "SOAP service returned "
                                    \o ToString(response.status) \o ": "
                                    \o response.statusText,
                      details |-> errorText,
                      batch |-> i + 1]))
    /\ pc' = "text"
    /\ UNCHANGED <<data, contextId, responseText, chunks, i, responses, response, timers,
                   inflight, posts, delays>>
    /\ UNCHANGED cvars

\* if (!response.ok): read the error body (best effort) and answer the caller
ReadErrorText ==
    /\ pc = "errtext"
    /\ \E readable \in BOOLEAN :
          LET errorText == IF readable THEN TextBody
                           ELSE "Could not read error response: "
                                    \o "body stream failed"
          IN  /\ events' = Append(events,
                     Event(i + 1, IF readable THEN "errbody" ELSE "errbodyfail",
                           response.status, "", errorText))
              /\ sent' = Append(sent, Reply(response.status,
                     [error |-> "SOAP service returned "
                                    \o ToString(response.status) \o ": "
                                    \o response.statusText,
                      details |-> errorText,
                      batch |-> i + 1]))
    /\ pc' = "done"
    /\ UNCHANGED <<data, contextId, responseText, chunks, i, responses, response, timers,
                   inflight, posts, delays>>
    /\ UNCHANGED cvars

\* await response.text() rejects with no try around it: the rejection lands in
\* catch (batchError)
ReadTextFailsUncaught ==
    /\ pc = "text"
    /\ events' = Append(events, Event(i + 1, "readfail", response.status, "", ""))
    /\ CatchBatchError([name |-> "FetchError", code |-> "undefined",
                        message |-> "body stream failed"])
    /\ UNCHANGED <<data, contextId, responseText, chunks, response, timers, inflight, posts,
                   delays>>
    /\ UNCHANGED cvars

\* await response.text() rejects: the inner catch answers 500 and returns
ReadTextFails ==
    /\ pc = "text"
    /\ events' = Append(events, Event(i + 1, "readfail", response.status, "", ""))
    /\ sent' = Append(sent, Reply(500, [error |-> "Failed to read SOAP response",
                                        details |-> "body stream failed",
                                        batch |-> i + 1]))
    /\ pc' = "done"
    /\ UNCHANGED <<data, contextId, responseText, chunks, i, responses, response, timers,
                   inflight, posts, delays>>
    /\ UNCHANGED cvars

\* await response.text() resolves with the body; the handler builds the parser
\* and suspends on parser.parseStringPromise(responseText)
ReadText ==
    /\ pc = "text"
    /\ \E text \in Bodies :
          /\ responseText' = text
          /\ events' = Append(events,
                 Event(i + 1, "body", response.status, "", text))
    /\ pc' = "parse"
    /\ UNCHANGED <<data, contextId, chunks, i, responses, response, timers,
                   inflight, posts, delays, sent>>
    /\ UNCHANGED cvars

\* the same step without the try around the parse: a parse rejection lands in
\* catch (batchError)
ParseSettlesUncaught ==
    /\ pc = "parse"
    /\ LET parsed == parseStringPromise(responseText)
       IN  /\ events' = Append(events,
                  Event(i + 1, "parse", response.status, "", responseText))
           /\ IF parsed.threw
              THEN CatchBatchError([name |-> "Error", code |-> "undefined",
                                    message |-> "Non-whitespace before first tag."])
              ELSE /\ responses' = Append(responses,
                          SuccessEntry(i + 1, response.status, responseText,
                                       parsed.value, Len(chunks[i + 1])))
                   /\ IF i < Len(chunks) - 1
                      THEN pc' = "delay" /\ i' = i
                      ELSE pc' = "loop" /\ i' = i + 1
                   /\ UNCHANGED sent
    /\ UNCHANGED <<data, contextId, responseText, chunks, response, timers,
                   inflight, posts, delays>>
    /\ UNCHANGED cvars

\* the promise of parseStringPromise settles (a rejection leaves
\* parsedResponse null): push the success entry, then pause unless this was
\* the last chunk
ParseSettles ==
    /\ pc = "parse"
    /\ LET parsed == parseStringPromise(responseText)
           parsedResponse == IF parsed.threw THEN Null ELSE parsed.value
       IN  /\ events' = Append(events,
                  Event(i + 1, "parse", response.status, "", responseText))
           /\ responses' = Append(responses,
                  SuccessEntry(i + 1, response.status, responseText,
                               parsedResponse, Len(chunks[i + 1])))
    /\ IF i < Len(chunks) - 1
       THEN pc' = "delay" /\ i' = i
       ELSE pc' = "loop" /\ i' = i + 1
    /\ UNCHANGED <<data, contextId, responseText, chunks, response, timers,
                   inflight, posts, delays, sent>>
    /\ UNCHANGED cvars

\* the pause between batches elapses; the for loop increments i
DelayElapses ==
    /\ pc = "delay"
    /\ delays' = Append(delays, [after |-> i + 1, ms |-> DelayMs])
    /\ i' = i + 1
    /\ pc' = "loop"
    /\ UNCHANGED <<data, contextId, responseText, chunks, responses, response, timers,
                   inflight, posts, events, sent>>
    /\ UNCHANGED cvars

\* the loop is over: res.json({ success, totalBatches, ... })
Summary ==
    /\ pc = "loop"
    /\ i >= Len(chunks)
    /\ sent' = Append(sent, Reply(200, SummaryJson(responses, chunks, data.value)))
    /\ pc' = "done"
    /\ UNCHANGED <<data, contextId, responseText, chunks, i, responses, response, timers,
                   inflight, posts, events, delays>>
    /\ UNCHANGED cvars

Next ==
    \/ RejectData
    \/ RejectContext
    \/ Accept
    \/ SubmitBatch
    \/ BuildThrows
    \/ FetchResolves
    \/ FetchRejects
    \/ TimeoutFires
    \/ ReadErrorText
    \/ ReadTextFails
    \/ ReadText
    \/ ParseSettles
    \/ DelayElapses
    \/ Summary

Spec == Init /\ [][Next]_vars

(* What the event loop guarantees: code that is ready to run runs, the      *)
(* parser, which works on text already in memory, settles its promise, and  *)
(* an armed timer fires. Nothing obliges the remote service to answer the   *)
(* fetch or to deliver the body, so FetchResolves, FetchRejects, ReadText,  *)
(* ReadTextFails and ReadErrorText carry no fairness.                       *)
HandlerStep ==
    \/ RejectData
    \/ RejectContext
    \/ Accept
    \/ SubmitBatch
    \/ BuildThrows
    \/ ParseSettles
    \/ Summary

SpecLive ==
    /\ Init
    /\ [][Next]_vars
    /\ WF_vars(HandlerStep)
    /\ WF_vars(TimeoutFires)
    /\ WF_vars(DelayElapses)

---------------------------------------------------------------------------
(* The chunker on its own: chunkArray applied to any array and any size *)

Elems == {1, 2, 3}

ArraysUpTo(n) == UNION {[1..m -> Elems] : m \in 0..n}

\* the handler is not running
HandlerIdle ==
    /\ data = [isArray |-> FALSE, value |-> <<>>]
    /\ contextId = ""
    /\ pc = "idle"
    /\ chunks = <<>>
    /\ i = 0
    /\ responses = <<>>
    /\ response = NoResponse
    /\ responseText = Null
    /\ timers = {}
    /\ inflight = {}
    /\ posts = <<>>
    /\ events = <<>>
    /\ delays = <<>>
    /\ sent = <<>>

BuilderIdle ==
    /\ bRows = <<>>
    /\ bCtx = <<>>
    /\ bOut = [returned |-> FALSE, threw |-> FALSE, xml |-> <<>>]

InitChunk ==
    /\ cArr \in ArraysUpTo(MaxLen)
    /\ cSize \in 1..MaxSize
    /\ cOut = [returned |-> FALSE, chunks |-> <<>>]
    /\ cI = 0
    /\ BuilderIdle
    /\ data = [isArray |-> FALSE, value |-> <<>>]
    /\ contextId = ""
    /\ pc = "idle"
    /\ chunks = <<>>
    /\ i = 0
    /\ responses = <<>>
    /\ response = NoResponse
    /\ responseText = Null
    /\ timers = {}
    /\ inflight = {}
    /\ posts = <<>>
    /\ events = <<>>
    /\ delays = <<>>
    /\ sent = <<>>

CallChunkArray ==
    /\ ~cOut.returned
    /\ cOut' = [returned |-> TRUE, chunks |-> chunkArray(cArr, cSize)]
    /\ UNCHANGED <<cArr, cSize, cI, bRows, bCtx, bOut>>
    /\ UNCHANGED hvars

NextChunk == CallChunkArray

SpecChunk == InitChunk /\ [][NextChunk]_vars

---------------------------------------------------------------------------
(* The loop of chunkArray step by step, for sizes of any sign *)

InitChunkLoop ==
    /\ cArr \in ArraysUpTo(MaxLen)
    /\ cSize \in (0 - MaxNegSize)..MaxSize
    /\ cOut = [returned |-> FALSE, chunks |-> <<>>]
    /\ cI = 0
    /\ BuilderIdle
    /\ HandlerIdle

\* one iteration: i < arr.length, chunks.push(arr.slice(i, i + size)), i += size
ChunkLoopStep ==
    /\ ~cOut.returned
    /\ cI < Len(cArr)
    /\ Len(cOut.chunks) < MaxIter
    /\ cOut' = [returned |-> FALSE,
                chunks |-> Append(cOut.chunks, slice(cArr, cI, cI + cSize))]
    /\ cI' = cI + cSize
    /\ UNCHANGED <<cArr, cSize, bRows, bCtx, bOut>>
    /\ UNCHANGED hvars

\* the loop test fails: return chunks
ChunkLoopReturn ==
    /\ ~cOut.returned
    /\ cI >= Len(cArr)
    /\ cOut' = [returned |-> TRUE, chunks |-> cOut.chunks]
    /\ UNCHANGED <<cArr, cSize, cI, bRows, bCtx, bOut>>
    /\ UNCHANGED hvars

NextChunkLoop == ChunkLoopStep \/ ChunkLoopReturn

SpecChunkLoop == InitChunkLoop /\ [][NextChunkLoop]_vars

---------------------------------------------------------------------------
(* The envelope builder on its own: buildSoapEnvelope applied to any chunk *)

\* cell texts: plain, padded with blanks, holding a quote, holding markup
BuildValues ==
    {<<"A">>, <<" ", "A", " ", "B", "\t">>, <<"\r", "A", "\f", "\\u2003">>,
     <<"A", Quote, "B">>, <<"<", "&">>}

BuildRows ==
    [EnvelopeId : BuildValues, AuthToken : BuildValues]
    \cup [EnvelopeId : BuildValues]
    \cup [AuthToken : BuildValues]

BuildContexts == {<<"C", "T", "X">>, <<"C", Quote, ">">>}

InitBuild ==
    /\ bRows \in UNION {[1..m -> BuildRows] : m \in 0..MaxRows}
    /\ bCtx \in BuildContexts
    /\ bOut = [returned |-> FALSE, threw |-> FALSE, xml |-> <<>>]
    /\ cArr = <<>>
    /\ cSize = 1
    /\ cOut = [returned |-> FALSE, chunks |-> <<>>]
    /\ cI = 0
    /\ HandlerIdle

CallBuildSoapEnvelope ==
    /\ ~bOut.returned
    /\ LET xmlBody == buildSoapEnvelope(bRows, bCtx)
       IN  bOut' = [returned |-> TRUE, threw |-> xmlBody.threw, xml |-> xmlBody.xml]
    /\ UNCHANGED <<cArr, cSize, cOut, cI, bRows, bCtx>>
    /\ UNCHANGED hvars

NextBuild == CallBuildSoapEnvelope

SpecBuild == InitBuild /\ [][NextBuild]_vars

---------------------------------------------------------------------------
(* Vocabulary of the properties *)

NumChunks == Len(chunks)

Posted(k) == \E p \in 1..Len(posts) : posts[p].batch = k

\* the positions of responses that hold the entry of batch k
EntriesOf(k) == {x \in 1..Len(responses) : responses[x].batch = k}

\* the remote answered batch e.batch with a non-success status
IsRemoteError(e) == e.kind = "status" /\ ~Ok(e.status)

IsTimeout(e) == e.kind = "timeout"

\* the transport failures the handler answers with 503 Service unavailable
IsServiceUnavailable(e) ==
    e.kind = "transport" /\ e.code \in {"ENOTFOUND", "ECONNREFUSED"}

\* the caller has been answered with the error payload of a fatal abort
AbortedAt(k, status) ==
    /\ pc = "done"
    /\ Len(sent) = 1
    /\ sent[1].status = status
    /\ "batch" \in DOMAIN sent[1].json
    /\ sent[1].json.batch = k

\* some row of the accepted input lacks EnvelopeId or AuthToken
HasIncompleteRow ==
    /\ data.isArray
    /\ contextId # ""
    /\ \E p \in 1..Len(data.value) : RowThrows(data.value[p])

RECURSIVE Flatten(_)
Flatten(cs) == IF cs = <<>> THEN <<>> ELSE Head(cs) \o Flatten(Tail(cs))

Ceil(n, s) == (n + s - 1) \div s

---------------------------------------------------------------------------
(* C1: when the remote answers batch k with a non-success HTTP status, once  *)
(* the run is over a failed Batch Result for batch k has been recorded and  *)
(* every later batch k+1..N has been submitted.                             *)
C1_RemoteErrorRecordedAndRunContinues ==
    \A x \in 1..Len(events) :
        (IsRemoteError(events[x]) /\ pc = "done") =>
            /\ \E y \in EntriesOf(events[x].batch) : ~responses[y].success
            /\ \A j \in (events[x].batch + 1)..NumChunks : Posted(j)

(* C2: if batch k ends in a timeout (AbortError) or in a transport failure  *)
(* answered as Service unavailable, the run is over at once: the caller is  *)
(* answered with the error naming batch k (408, respectively 503), and no   *)
(* POST is issued for any batch after k, in that state or any later one.    *)
C2_FatalClassAbortsRun ==
    \A x \in 1..Len(events) :
        (IsTimeout(events[x]) \/ IsServiceUnavailable(events[x])) =>
            /\ x = Len(events)
            /\ AbortedAt(events[x].batch, IF IsTimeout(events[x]) THEN 408 ELSE 503)
            /\ inflight = {}
            /\ \A p \in 1..Len(posts) : posts[p].batch <= events[x].batch

\* batch 2 of 3 timed out or was refused, after batch 1 went through
C2_Witness ==
    /\ NumChunks = 3
    /\ Len(events) >= 2
    /\ events[Len(events)].batch = 2
    /\ IsTimeout(events[Len(events)]) \/ IsServiceUnavailable(events[Len(events)])
    /\ pc = "done"
    /\ Posted(1) /\ Posted(2)

(* C3: for a non-empty array of length n and a positive size s, chunkArray  *)
(* returns ceil(n/s) chunks, each of size s except the last, which has      *)
(* between 1 and s elements, and the chunks concatenated in order are the   *)
(* array.                                                                   *)
C3_ChunksPartitionInOrder ==
    (cOut.returned /\ Len(cArr) > 0 /\ cSize > 0) =>
        LET cs == cOut.chunks
            n  == Len(cArr)
        IN  /\ Len(cs) = Ceil(n, cSize)
            /\ \A k \in 1..(Len(cs) - 1) : Len(cs[k]) = cSize
            /\ Len(cs[Len(cs)]) >= 1
            /\ Len(cs[Len(cs)]) <= cSize
            /\ Flatten(cs) = cArr

\* three distinct elements cut into a full chunk and a shorter last chunk
C3_Witness ==
    /\ cOut.returned
    /\ cArr = <<1, 2, 3>>
    /\ cSize = 2
    /\ cOut.chunks = <<(<<1, 2>>), (<<3>>)>>

(* C4: batches are submitted one at a time and in index order: at most one  *)
(* fetch is pending, it is the fetch of the latest POST, the POSTed batch   *)
(* numbers are strictly increasing (so no batch is POSTed twice), and every *)
(* batch before a POSTed one has its outcome in the result list.            *)
C4_OneAtATimeInOrderNoRetry ==
    /\ Cardinality(inflight) <= 1
    /\ \A k \in inflight : Len(posts) > 0 /\ posts[Len(posts)].batch = k
    /\ \A p, q \in 1..Len(posts) : p < q => posts[p].batch < posts[q].batch
    /\ \A p \in 1..Len(posts) :
          \A j \in 1..(posts[p].batch - 1) : EntriesOf(j) # {}

\* the third POST is pending after one success and one recorded failure
C4_Witness ==
    /\ Len(posts) = 3
    /\ inflight = {3}
    /\ Len(responses) = 2
    /\ responses[1].success
    /\ ~responses[2].success

(* C5: if a row of the input lacks EnvelopeId or AuthToken, no POST is ever *)
(* issued and the caller is answered with an input-validation failure.      *)
C5_IncompleteRowRejectsBeforeAnyPost ==
    HasIncompleteRow =>
        /\ posts = <<>>
        /\ pc = "done" => (Len(sent) = 1 /\ sent[1].status = 400)

\* the body of a successful response could not be parsed as XML
IsParseFailure(e) == e.kind = "parse" /\ parseStringPromise(e.body).threw

\* the reply is a Run Summary
IsSummary(r) == "results" \in DOMAIN r.json

(* C6: in every Run Summary returned, successfulBatches is the number of    *)
(* entries of results with success = true and the success flag is true      *)
(* exactly when there is such an entry; and a finished run in which every   *)
(* chunk got an entry (whatever the outcomes) has returned the summary.     *)
C6_SummaryCountsSuccesses ==
    /\ \A x \in 1..Len(sent) :
          IsSummary(sent[x]) =>
              LET j == sent[x].json
                  good == {y \in 1..Len(j.results) : j.results[y].success}
              IN  /\ j.successfulBatches = Cardinality(good)
                  /\ j.success <=> (good # {})
    /\ (pc = "done" /\ data.isArray /\ contextId # "" /\ Len(responses) = NumChunks) =>
          (Len(sent) = 1 /\ sent[1].status = 200 /\ IsSummary(sent[1])
             /\ sent[1].json.results = responses)

\* a summary of two batches that both failed without ending the run
C6_Witness ==
    /\ Len(sent) = 1
    /\ IsSummary(sent[1])
    /\ Len(sent[1].json.results) = 2
    /\ \A y \in 1..2 : ~sent[1].json.results[y].success
    /\ ~sent[1].json.success
    /\ sent[1].json.successfulBatches = 0

(* C7: every transport failure of a batch's HTTP call, whatever its error   *)
(* code, ends the run with the Service unavailable answer naming the batch, *)
(* and is never recorded as a failed batch.                                 *)
C7_EveryTransportFailureIsFatal ==
    \A x \in 1..Len(events) :
        events[x].kind = "transport" =>
            /\ AbortedAt(events[x].batch, 503)
            /\ EntriesOf(events[x].batch) = {}

(* C8 as stated: when batch k times out, the caller is handed exactly k     *)
(* Batch Results (batches 1..k in order) in a payload flagged as aborted.   *)
C8_TimeoutHandsBackKResults ==
    \A x \in 1..Len(events) :
        IsTimeout(events[x]) =>
            /\ Len(sent) = 1
            /\ "batch" \in DOMAIN sent[1].json
            /\ IsSummary(sent[1])
            /\ Len(sent[1].json.results) = events[x].batch

(* C8 as amended: when batch k times out, the caller is handed only the 408 *)
(* error payload naming batch k, which carries no Batch Results; the result *)
(* list of the handler then holds the k-1 entries of the earlier batches in *)
(* submission order and none for batch k.                                   *)
C8_TimeoutHandsBackErrorOnly ==
    \A x \in 1..Len(events) :
        IsTimeout(events[x]) =>
            /\ AbortedAt(events[x].batch, 408)
            /\ ~IsSummary(sent[1])
            /\ DOMAIN sent[1].json = {"error", "details", "batch"}
            /\ Len(responses) = events[x].batch - 1
            /\ \A y \in 1..Len(responses) : responses[y].batch = y

\* batch 2 of 3 timed out after batch 1 succeeded
C8_Witness ==
    /\ NumChunks = 3
    /\ Len(events) > 0
    /\ IsTimeout(events[Len(events)])
    /\ events[Len(events)].batch = 2
    /\ Len(responses) = 1
    /\ responses[1].success
    /\ Len(sent) = 1
    /\ sent[1].status = 408

(* C9: when the body of a successful response cannot be parsed as XML, the  *)
(* batch is recorded with success = true, parsedResponse null and the raw   *)
(* body kept, and the run goes on: it pauses and submits the next batch, or *)
(* after the last batch returns the summary; it never ends in an error.     *)
C9_ParseFailureIsNotFatal ==
    \A x \in 1..Len(events) :
        IsParseFailure(events[x]) =>
            LET k == events[x].batch
            IN  /\ k <= Len(responses)
                /\ responses[k].batch = k
                /\ responses[k].success
                /\ responses[k].parsedResponse = Null
                /\ responses[k].rawResponse = events[x].body
                /\ responses[k].status = events[x].status
                /\ x = Len(events) =>
                      IF k < NumChunks
                      THEN pc \in {"delay", "loop", "fetch"}
                      ELSE \/ pc = "loop"
                           \/ pc = "done" /\ sent[1].status = 200 /\ IsSummary(sent[1])

\* batch 1 came back unparseable and batch 2 has been POSTed
C9_Witness ==
    /\ \E x \in 1..Len(events) :
          IsParseFailure(events[x]) /\ events[x].batch = 1
    /\ responses[1].success
    /\ responses[1].parsedResponse = Null
    /\ Posted(2)

(* C10: between two consecutive batches that are both POSTed the pause has  *)
(* elapsed, whatever the outcome of the first; no pause follows the last    *)
(* batch.                                                                   *)
C10_PauseBetweenConsecutivePosts ==
    /\ \A p \in 1..(Len(posts) - 1) :
          posts[p + 1].batch = posts[p].batch + 1 =>
              \E d \in 1..Len(delays) : delays[d].after = posts[p].batch
    /\ \A d \in 1..Len(delays) : delays[d].after < NumChunks

\* the number of rows of chunk k, from the length of the input alone
RowsOfChunk(k) == Min(BatchSize, Len(data.value) - BatchSize * (k - 1))

RECURSIVE SumItemCount(_)
SumItemCount(rs) ==
    IF rs = <<>> THEN 0 ELSE Head(rs).itemCount + SumItemCount(Tail(rs))

C11_State ==
    /\ Len(responses) <= NumChunks
    /\ \A x, y \in 1..Len(responses) :
          x # y => responses[x].batch # responses[y].batch
    /\ \A x \in 1..Len(sent) :
          IsSummary(sent[x]) =>
              LET j == sent[x].json
              IN  /\ j.totalBatches = Ceil(Len(data.value), BatchSize)
                  /\ Len(j.results) = j.totalBatches
                  /\ \A k \in 1..Len(j.results) :
                        /\ j.results[k].batch = k
                        /\ j.results[k].itemCount = RowsOfChunk(k)
                  /\ j.totalItems = SumItemCount(j.results)
                  /\ j.totalItems = Len(data.value)

C11_Step ==
    \/ responses' = responses
    \/ /\ Len(responses') = Len(responses) + 1
       /\ SubSeq(responses', 1, Len(responses)) = responses

(* C11: the result list only grows, one entry at a time, and never holds    *)
(* two entries of one chunk or more entries than chunks; in every Run       *)
(* Summary returned, results has totalBatches entries, entry k carries      *)
(* batch k and the size of chunk k as itemCount, and totalItems is the sum  *)
(* of the itemCounts and the number of input rows.                          *)
C11_ResultsOnePerChunkInOrder == []C11_State /\ [][C11_Step]_vars

\* the summary of 120 rows: three entries of 50, 50 and 20 items
C11_Witness ==
    /\ Len(data.value) = 120
    /\ Len(sent) = 1
    /\ IsSummary(sent[1])
    /\ Len(sent[1].json.results) = 3
    /\ sent[1].json.results[3].itemCount = 20
    /\ sent[1].json.results[1].success
    /\ ~sent[1].json.results[2].success
    /\ sent[1].json.totalItems = 120

\* the request is one the validation refuses
IsRefused == ~data.isArray \/ contextId = ""

(* C12: if data is missing or not an array, or contextId is empty or        *)
(* missing, nothing is POSTed and no Batch Result is produced, and when the *)
(* handler is done the caller has the 400 validation answer.                *)
C12_InvalidRequestRejected ==
    IsRefused =>
        /\ posts = <<>>
        /\ responses = <<>>
        /\ chunks = <<>>
        /\ pc \in {"start", "done"}
        /\ pc = "done" =>
              (Len(sent) = 1 /\ sent[1].status = 400 /\ ~IsSummary(sent[1]))

\* a full array of rows was sent without a contextId and was refused
C12_Witness ==
    /\ data.isArray
    /\ Len(data.value) = 120
    /\ contextId = ""
    /\ pc = "done"
    /\ sent[1].status = 400

(* C13: called with a size that is 0 or negative, the chunker builds no     *)
(* chunk and does not return normally (it fails with InvalidInput).         *)
C13_NonPositiveSizeRejected ==
    cSize <= 0 => (cOut.chunks = <<>> /\ ~cOut.returned)

---------------------------------------------------------------------------
(* Vocabulary of the envelope properties *)

\* the text of s between its first and its last non-blank character
Core(s) ==
    LET solid == {x \in 1..Len(s) : s[x] \notin Whitespace}
    IN  IF solid = {} THEN <<>>
        ELSE SubSeq(s, CHOOSE x \in solid : \A y \in solid : x <= y,
                       CHOOSE x \in solid : \A y \in solid : x >= y)

\* the element the template writes for a row, spelled out
WrittenElement(row, ctx) ==
    <<"<DeleteEnvelopeRequest", " ContextIdentifier=", "\"">> \o ctx
        \o <<"\"", " EnvelopeId=", "\"">> \o Core(row["EnvelopeId"])
        \o <<"\"", " EnvelopeAuthToken=", "\"">> \o Core(row["AuthToken"])
        \o <<"\"", " />">>

RECURSIVE WrittenElements(_, _)
WrittenElements(rows, ctx) ==
    IF rows = <<>> THEN <<>>
    ELSE WrittenElement(Head(rows), ctx) \o WrittenElements(Tail(rows), ctx)

AllComplete(rows) == \A k \in 1..Len(rows) : ~RowThrows(rows[k])

(* C14: for a chunk whose rows all have EnvelopeId and AuthToken, the       *)
(* builder returns the document whose Requests part is, row after row in    *)
(* chunk order, exactly one DeleteEnvelopeRequest element written with the  *)
(* context identifier and the row's EnvelopeId and AuthToken stripped of    *)
(* their surrounding blanks (inner blanks kept).                            *)
C14_OneTrimmedElementPerRowInOrder ==
    (bOut.returned /\ AllComplete(bRows)) =>
        /\ ~bOut.threw
        /\ Len(bOut.xml) >= 2
        /\ SubSeq(bOut.xml, 2, Len(bOut.xml) - 1) = WrittenElements(bRows, bCtx)

\* two rows, the first padded with blanks, built in order
C14_Witness ==
    /\ bOut.returned
    /\ ~bOut.threw
    /\ Len(bRows) = 2
    /\ bCtx = <<"C", "T", "X">>
    /\ bRows[1] = [EnvelopeId |-> <<" ", "A", " ", "B", "\t">>, AuthToken |-> <<"A">>]
    /\ bRows[2] = [EnvelopeId |-> <<"A">>, AuthToken |-> <<" ", "A", " ", "B", "\t">>]
    /\ SubSeq(bOut.xml, 2, 12) =
          <<"<DeleteEnvelopeRequest", " ContextIdentifier=", "\"", "C", "T", "X",
            "\"", " EnvelopeId=", "\"", "A", " ">>

(* What a reader of the document sees: the elements and their attribute     *)
(* values. An attribute value runs to the next quote; inside a value a raw  *)
(* < or & is not well-formed, and the four entities stand for their         *)
(* characters.                                                              *)
AttrNames == {" ContextIdentifier=", " EnvelopeId=", " EnvelopeAuthToken="}

Unescape(piece) ==
    CASE piece = "&quot;" -> "\""
      [] piece = "&lt;" -> "<"
      [] piece = "&gt;" -> ">"
      [] piece = "&amp;" -> "&"
      [] OTHER -> piece

\* the position of the first quote of m at or after pos, 0 if there is none
NextQuote(m, pos) ==
    LET qs == {x \in pos..Len(m) : m[x] = "\""}
    IN  IF qs = {} THEN 0 ELSE CHOOSE x \in qs : \A y \in qs : x <= y

\* the attributes of the element whose attribute list starts at pos
RECURSIVE ReadAttrs(_, _, _)
ReadAttrs(m, pos, attrs) ==
    IF pos > Len(m) THEN [ok |-> FALSE, next |-> pos, attrs |-> attrs]
    ELSE IF m[pos] = " />" THEN [ok |-> TRUE, next |-> pos + 1, attrs |-> attrs]
    ELSE IF m[pos] \in AttrNames /\ pos + 1 <= Len(m) /\ m[pos + 1] = "\""
    THEN LET q == NextQuote(m, pos + 2)
         IN  IF q = 0 THEN [ok |-> FALSE, next |-> pos, attrs |-> attrs]
             ELSE LET raw == SubSeq(m, pos + 2, q - 1)
                  IN  IF \E x \in 1..Len(raw) : raw[x] \in {"<", "&"}
                      THEN [ok |-> FALSE, next |-> pos, attrs |-> attrs]
                      ELSE ReadAttrs(m, q + 1,
                               Append(attrs,
                                   [name |-> m[pos],
                                    value |-> [x \in 1..Len(raw) |-> Unescape(raw[x])]]))
    ELSE [ok |-> FALSE, next |-> pos, attrs |-> attrs]

\* the elements of the Requests part m from pos on
RECURSIVE ReadElements(_, _, _)
ReadElements(m, pos, elems) ==
    IF pos > Len(m) THEN [ok |-> TRUE, elems |-> elems]
    ELSE IF m[pos] = "<DeleteEnvelopeRequest"
    THEN LET a == ReadAttrs(m, pos + 1, <<>>)
         IN  IF a.ok THEN ReadElements(m, a.next, Append(elems, a.attrs))
             ELSE [ok |-> FALSE, elems |-> elems]
    ELSE [ok |-> FALSE, elems |-> elems]

ReadDocument(xml) ==
    IF Len(xml) < 2 THEN [ok |-> FALSE, elems |-> <<>>]
    ELSE ReadElements(SubSeq(xml, 2, Len(xml) - 1), 1, <<>>)

\* the attributes a reader must get back for a row
AttrsOf(row, ctx) ==
    <<[name |-> " ContextIdentifier=", value |-> ctx],
      [name |-> " EnvelopeId=", value |-> Core(row["EnvelopeId"])],
      [name |-> " EnvelopeAuthToken=", value |-> Core(row["AuthToken"])]>>

(* C15: whatever characters the values hold (a quote, <, >, &), the built   *)
(* document reads back as exactly one request element per row whose three   *)
(* attributes decode to the contextId and the trimmed EnvelopeId and        *)
(* AuthToken of the row.                                                    *)
C15_ValuesAreEscaped ==
    (bOut.returned /\ AllComplete(bRows)) =>
        LET d == ReadDocument(bOut.xml)
        IN  /\ d.ok
            /\ Len(d.elems) = Len(bRows)
            /\ \A k \in 1..Len(bRows) : d.elems[k] = AttrsOf(bRows[k], bCtx)

---------------------------------------------------------------------------
\* reading the body of a successful response failed
IsReadFailure(e) == e.kind = "readfail"

(* C16 as stated: when reading the body of batch k fails, a failed Batch    *)
(* Result is recorded for batch k and every later batch is submitted.       *)
C16_ReadFailureRecordedAndRunContinues ==
    \A x \in 1..Len(events) :
        (IsReadFailure(events[x]) /\ pc = "done") =>
            /\ \E y \in EntriesOf(events[x].batch) : ~responses[y].success
            /\ \A j \in (events[x].batch + 1)..NumChunks : Posted(j)

(* C16 as amended: when reading the body of batch k fails, the handler      *)
(* answers the caller at once with the 500 error naming batch k, records no *)
(* Batch Result for batch k and submits no later batch.                     *)
C16_ReadFailureEndsRun ==
    \A x \in 1..Len(events) :
        IsReadFailure(events[x]) =>
            /\ x = Len(events)
            /\ AbortedAt(events[x].batch, 500)
            /\ sent[1].json.error = "Failed to read SOAP response"
            /\ ~IsSummary(sent[1])
            /\ EntriesOf(events[x].batch) = {}
            /\ Len(responses) = events[x].batch - 1
            /\ \A p \in 1..Len(posts) : posts[p].batch <= events[x].batch

\* the body of batch 1 of 3 could not be read
C16_Witness ==
    /\ NumChunks = 3
    /\ Len(events) = 2
    /\ IsReadFailure(events[2])
    /\ events[2].batch = 1
    /\ pc = "done"
    /\ Len(posts) = 1

\* the events logged for batch k
EventsOf(k) == {x \in 1..Len(events) : events[x].batch = k}

(* C17: a timer is armed only for the batch whose fetch is pending and is   *)
(* gone as soon as that fetch settles, so at most one timer is armed, no    *)
(* timer fires for a batch whose fetch has settled, and a timeout hits only *)
(* a batch that had no other outcome; the outcomes of the other batches     *)
(* stay as they were.                                                       *)
C17_TimerBelongsToPendingFetch ==
    /\ timers \subseteq inflight
    /\ Cardinality(timers) <= 1
    /\ \A x \in 1..Len(events) : events[x].kind # "latefire"
    /\ \A x \in 1..Len(events) :
          IsTimeout(events[x]) =>
              /\ EventsOf(events[x].batch) = {x}
              /\ Posted(events[x].batch)
              /\ \A j \in 1..(events[x].batch - 1) :
                    EntriesOf(j) # {} /\ j \notin timers /\ j \notin inflight

\* batch 1 has completed and its timer is gone; the timer of batch 2 is armed
C17_Witness ==
    /\ timers = {2}
    /\ inflight = {2}
    /\ Len(responses) = 1
    /\ responses[1].success

(* C18: every accepted run ends: whatever the remote does, the handler      *)
(* eventually hands the caller a Run Summary or an error payload.           *)
C18_EveryRunEnds == <>(pc = "done" /\ Len(sent) = 1)

C19_State ==
    /\ Len(sent) <= 1
    /\ pc = "done" <=> Len(sent) = 1

C19_Step ==
    Len(sent) >= 1 => (sent' = sent /\ posts' = posts /\ responses' = responses)

(* C19: the handler never sends a second response, it has finished exactly  *)
(* when it has sent one (on every path that ends: validation failure,       *)
(* non-ok status, body-read failure, timeout, connection failure, normal    *)
(* completion with or without recorded failures), and after the response    *)
(* it POSTs nothing and appends nothing to the result list.                 *)
C19_OneResponseThenNothing == []C19_State /\ [][C19_Step]_vars

\* a run of two batches, one recorded as failed, has sent its summary
C19_Witness ==
    /\ pc = "done"
    /\ Len(sent) = 1
    /\ IsSummary(sent[1])
    /\ Len(posts) = 2
    /\ Len(responses) = 2
    /\ ~responses[1].success

\* an empty array of rows with a contextId
IsEmptyRun == data.isArray /\ data.value = <<>> /\ contextId # ""

(* C20: for an empty array of rows and a non-empty contextId there are zero *)
(* chunks, nothing is POSTed, and the outcome is the summary with           *)
(* totalBatches = 0, totalItems = 0, successfulBatches = 0, results empty   *)
(* and success = false.                                                     *)
C20_EmptyInputEmptySummary ==
    IsEmptyRun =>
        /\ chunks = <<>>
        /\ posts = <<>>
        /\ responses = <<>>
        /\ pc \in {"start", "loop", "done"}
        /\ pc = "done" =>
              sent = <<[status |-> 200,
                        json |-> [success |-> FALSE, totalBatches |-> 0,
                                  totalItems |-> 0, successfulBatches |-> 0,
                                  results |-> <<>>]]>>

\* the summary of the empty run has been sent
C20_Witness ==
    /\ IsEmptyRun
    /\ pc = "done"
    /\ Len(sent) = 1
    /\ sent[1].status = 200

===========================================================================
